---- MODULE Spec2Model ----
(***************************************************************************)
(* Filepath: a validated value type that wraps a path string, an optional  *)
(* `base` and the path algebra (`pathApi`) it is bound to.                 *)
(*                                                                         *)
(* Strings that the path algebra inspects are sequences of one-character   *)
(* strings, so that "a/b" is <<"a", "/", "b">>.  Indices into them are     *)
(* 0-based, as in the algebra's own loops.                                 *)
(***************************************************************************)
EXTENDS Integers, Sequences, FiniteSets, TLC

\* ---------------------------------------------------------------------
\* bounds of the exploration
\* ---------------------------------------------------------------------

\* longest input string drawn from Alphabet
MaxLen == 2
\* most segments handed to one join() call
MaxSegs == 1
\* longest chain of derivations (dirname / join) followed from one value
MaxDepth == 1
\* most parse() calls made on one instance
MaxParseOps == 2
\* most calls of the methods that return a plain value, counted in one run
MaxCalls == 3
\* most steps of a walk q = p.dirname(), q = q.dirname(), ...
MaxWalk == 11

\* ---------------------------------------------------------------------
\* string helpers (0-based, as String.prototype.*)
\* ---------------------------------------------------------------------

charAt(s, i) == s[i + 1]

slice(s, from, to) == SubSeq(s, from + 1, to)

\* the greatest index in lo..hi at which s holds ch; -1 when there is none
lastIndexIn(s, ch, lo, hi) ==
    LET S == {j \in lo..hi : charAt(s, j) = ch} IN
    IF S = {} THEN -1 ELSE CHOOSE j \in S : \A k \in S : k <= j

\* the greatest index in lo..hi at which s holds something else than ch
lastIndexNotIn(s, ch, lo, hi) ==
    LET S == {j \in lo..hi : charAt(s, j) # ch} IN
    IF S = {} THEN -1 ELSE CHOOSE j \in S : \A k \in S : k <= j

\* the least index in lo..hi at which s holds ch; -1 when there is none
indexIn(s, ch, lo, hi) ==
    LET S == {j \in lo..hi : charAt(s, j) = ch} IN
    IF S = {} THEN -1 ELSE CHOOSE j \in S : \A k \in S : j <= k

lastIndexOf(s, ch) == lastIndexIn(s, ch, 0, Len(s) - 1)

\* an omitted optional argument or option, an unset field (JavaScript's
\* undefined)
undefined == <<"undefined">>

\* ---------------------------------------------------------------------
\* the path algebras a Filepath can be bound to
\* ---------------------------------------------------------------------

\* Node's path.posix, the default binding on a POSIX host
posix == <<"posix">>
\* a caller-supplied algebra: the same rules with "\" as its separator
backslashApi == <<"backslash">>

PathApis == {posix, backslashApi}

sep(api) == IF api = posix THEN "/" ELSE "\\"

\* the `path` import: the host platform's algebra
path == posix

\* caller-supplied algebras that fail: throwingApi throws from every
\* function, brittleApi from every function but normalize; where they
\* answer, they follow the rules of backslashApi
throwingApi == <<"throwing">>
brittleApi == <<"brittle">>

\* a caller-supplied algebra whose parse throws on some calls and answers,
\* by the rules of backslashApi, on the others
flakyApi == <<"flaky">>

\* whether the function fn of the algebra api throws when called
Throws(api, fn) ==
    \/ api = throwingApi
    \/ api = brittleApi /\ fn # "normalize"

\* where the segment that starts at index `from` ends: at the next
\* separator, or at the end of the path
segmentEnd(p, separator, from) ==
    LET found == indexIn(p, separator, from, Len(p) - 1) IN
    IF found = -1 THEN Len(p) ELSE found

\* the loop of normalizeString(path, allowAboveRoot, separator), one step
\* per separator met (the end of the path counts as one):
\* st = [res, lastSegmentLength, lastSlash]
RECURSIVE normalizeStringFrom(_, _, _, _)
RECURSIVE normalizeStringAt(_, _, _, _, _)
normalizeStringFrom(p, allowAboveRoot, separator, st) ==
    IF st.lastSlash >= Len(p) - 1 THEN st.res
    ELSE normalizeStringAt(p, allowAboveRoot, separator, st,
                           segmentEnd(p, separator, st.lastSlash + 1))

\* the loop body at the separator at index i
normalizeStringAt(p, allowAboveRoot, separator, st, i) ==
    LET seg   == slice(p, st.lastSlash + 1, i)
        dots  == IF \A j \in st.lastSlash + 1 .. i - 1 : charAt(p, j) = "."
                 THEN i - st.lastSlash - 1 ELSE -1
        res   == st.res
        next(r, lsl) ==
            normalizeStringFrom(p, allowAboveRoot, separator,
                [res |-> r, lastSegmentLength |-> lsl, lastSlash |-> i])
        above ==
            IF allowAboveRoot
            THEN next(IF Len(res) > 0 THEN res \o <<separator, ".", ".">>
                                      ELSE <<".", ".">>, 2)
            ELSE next(res, st.lastSegmentLength)
    IN
    IF st.lastSlash = i - 1 \/ dots = 1 THEN
        next(res, st.lastSegmentLength)
    ELSE IF dots = 2 THEN
        IF Len(res) < 2 \/ st.lastSegmentLength # 2
           \/ charAt(res, Len(res) - 1) # "."
           \/ charAt(res, Len(res) - 2) # "."
        THEN
            IF Len(res) > 2 THEN
                LET lastSlashIndex == lastIndexOf(res, separator) IN
                IF lastSlashIndex = -1 THEN next(<<>>, 0)
                ELSE LET r == slice(res, 0, lastSlashIndex) IN
                     next(r, Len(r) - 1 - lastIndexOf(r, separator))
            ELSE IF Len(res) # 0 THEN next(<<>>, 0)
            ELSE above
        ELSE above
    ELSE
        next(IF Len(res) > 0 THEN res \o <<separator>> \o seg ELSE seg,
             i - st.lastSlash - 1)

normalizeString(p, allowAboveRoot, separator) ==
    normalizeStringFrom(p, allowAboveRoot, separator,
        [res |-> <<>>, lastSegmentLength |-> 0, lastSlash |-> -1])

\* pathApi.normalize(path)
pathApi_normalize(api, p) ==
    IF Len(p) = 0 THEN <<".">>
    ELSE
      LET isAbsolute == charAt(p, 0) = sep(api)
          trailingSeparator == charAt(p, Len(p) - 1) = sep(api)
          n == normalizeString(p, ~isAbsolute, sep(api))
      IN
      IF Len(n) = 0 THEN
          IF isAbsolute THEN <<sep(api)>>
          ELSE IF trailingSeparator THEN <<".", sep(api)>> ELSE <<".">>
      ELSE
        LET t == IF trailingSeparator THEN n \o <<sep(api)>> ELSE n IN
        IF isAbsolute THEN <<sep(api)>> \o t ELSE t

\* the loop of pathApi.join(...args): zero-length arguments are skipped
RECURSIVE joinedFrom(_, _, _, _)
joinedFrom(api, args, i, joined) ==
    IF i > Len(args) THEN joined
    ELSE LET arg == args[i] IN
         IF Len(arg) > 0
         THEN joinedFrom(api, args, i + 1,
                  IF joined = <<>> THEN arg ELSE joined \o <<sep(api)>> \o arg)
         ELSE joinedFrom(api, args, i + 1, joined)

\* pathApi.join(...args)
pathApi_join(api, args) ==
    IF Len(args) = 0 THEN <<".">>
    ELSE LET joined == joinedFrom(api, args, 1, <<>>) IN
         IF joined = <<>> THEN <<".">> ELSE pathApi_normalize(api, joined)

\* the scan of pathApi.dirname(path), from the end down to index 1: -1, or
\* the index of the first separator met after a character that is none
dirnameEnd(api, p) ==
    LET nonSlash == lastIndexNotIn(p, sep(api), 1, Len(p) - 1) IN
    IF nonSlash = -1 THEN -1
    ELSE lastIndexIn(p, sep(api), 1, nonSlash - 1)

\* pathApi.dirname(path)
pathApi_dirname(api, p) ==
    IF Len(p) = 0 THEN <<".">>
    ELSE
      LET hasRoot == charAt(p, 0) = sep(api)
          end == dirnameEnd(api, p)
      IN
      IF end = -1 THEN (IF hasRoot THEN <<sep(api)>> ELSE <<".">>)
      ELSE IF hasRoot /\ end = 1 THEN <<sep(api), sep(api)>>
      ELSE slice(p, 0, end)

\* the last segment of p, given the index nonSlash of the last character
\* that is no separator (-1: there is none): `end` follows that character,
\* `start` follows the separator before it (0: there is none)
basenameSegment(api, p, nonSlash) ==
    IF nonSlash = -1 THEN [start |-> 0, end |-> -1]
    ELSE [start |-> lastIndexIn(p, sep(api), 0, nonSlash - 1) + 1,
          end   |-> nonSlash + 1]

\* the scan of pathApi.basename(path) without a suffix, from the end
basenameScan(api, p) ==
    basenameSegment(api, p, lastIndexNotIn(p, sep(api), 0, Len(p) - 1))

\* how many characters of the last segment p[start..firstNonSlashEnd) the
\* scan matches against the suffix, both taken from their ends, before it
\* meets a difference or runs out of either
basenameSuffixMatch(p, suffix, start, firstNonSlashEnd) ==
    LET most == IF firstNonSlashEnd - start < Len(suffix)
                THEN firstNonSlashEnd - start ELSE Len(suffix)
        S == {n \in 0..most :
                \A j \in 1..n : charAt(p, firstNonSlashEnd - j)
                                    = charAt(suffix, Len(suffix) - j)}
    IN CHOOSE n \in S : \A k \in S : k <= n

\* where the scan leaves `end`, having matched `matched` characters of the
\* suffix in the segment `plain`: where the whole suffix has matched; at
\* firstNonSlashEnd after a difference; -1 when the segment runs out
\* before the suffix does
basenameSuffixEnd(suffix, plain, matched) ==
    [start |-> plain.start,
     end   |-> IF matched = Len(suffix) THEN plain.end - Len(suffix)
               ELSE IF matched < plain.end - plain.start THEN plain.end
               ELSE -1,
     firstNonSlashEnd |-> plain.end]

\* the scan of pathApi.basename(path, suffix) over the last segment
basenameSuffixSegment(p, suffix, plain) ==
    IF plain.end = -1
    THEN [start |-> 0, end |-> -1, firstNonSlashEnd |-> -1]
    ELSE basenameSuffixEnd(suffix, plain,
             basenameSuffixMatch(p, suffix, plain.start, plain.end))

\* the scan of pathApi.basename(path, suffix) with a suffix, from the end:
\* st = [start, end, firstNonSlashEnd]
basenameSuffixScan(api, p, suffix) ==
    basenameSuffixSegment(p, suffix, basenameScan(api, p))

\* the result of pathApi.basename(path, suffix) after its scan
basenameSuffixResult(p, st) ==
    slice(p, st.start, IF st.start = st.end THEN st.firstNonSlashEnd
                       ELSE IF st.end = -1 THEN Len(p)
                       ELSE st.end)

\* the result of pathApi.basename(path) after its scan
basenameResult(p, st) ==
    IF st.end = -1 THEN <<>> ELSE slice(p, st.start, st.end)

\* pathApi.basename(path, suffix?)
pathApi_basename(api, p, suffix) ==
    IF suffix # undefined /\ Len(suffix) > 0 /\ Len(suffix) <= Len(p) THEN
        IF suffix = p THEN <<>>
        ELSE basenameSuffixResult(p, basenameSuffixScan(api, p, suffix))
    ELSE basenameResult(p, basenameScan(api, p))

\* the dots that the scan of pathApi.parse(path) meets in the last segment,
\* which starts at index lo: startDot is its last "." (-1: there is none),
\* preDotState tells what precedes it (0: nothing, 1: the segment starts
\* with ".", -1: another character)
parseDots(p, lo, startDot) ==
    [startDot    |-> startDot,
     preDotState |-> IF startDot = -1 \/ startDot = lo THEN 0
                     ELSE IF charAt(p, lo) = "." THEN 1
                     ELSE -1]

\* the scan over the last segment p[lo..nonSlash]; slash is the index of
\* the separator before it (-1: there is none)
parseSegment(p, lo, nonSlash, slash, dots) ==
    [startDot    |-> dots.startDot,
     startPart   |-> IF slash = -1 THEN 0 ELSE slash + 1,
     end         |-> nonSlash + 1,
     preDotState |-> dots.preDotState]

\* the scan below the last character that is no separator
parseScanFrom(p, start, nonSlash, slash) ==
    IF slash = -1
    THEN parseSegment(p, start, nonSlash, slash,
             parseDots(p, start, lastIndexIn(p, ".", start, nonSlash)))
    ELSE parseSegment(p, slash + 1, nonSlash, slash,
             parseDots(p, slash + 1, lastIndexIn(p, ".", slash + 1, nonSlash)))

\* the scan down from the last character that is no separator, at index
\* nonSlash (-1: there is none)
parseScanAt(api, p, start, nonSlash) ==
    IF nonSlash = -1
    THEN [startDot |-> -1, startPart |-> 0, end |-> -1, preDotState |-> 0]
    ELSE parseScanFrom(p, start, nonSlash,
             lastIndexIn(p, sep(api), start, nonSlash - 1))

\* the scan of pathApi.parse(path), from the end down to index `start`:
\* st = [startDot, startPart, end, preDotState]
parseScan(api, p, start) ==
    parseScanAt(api, p, start, lastIndexNotIn(p, sep(api), start, Len(p) - 1))

\* the record pathApi.parse(path) builds after its scan
parseResult(api, p, isAbsolute, st) ==
    LET start == IF st.startPart = 0 /\ isAbsolute THEN 1 ELSE st.startPart
        noExt == \/ st.startDot = -1
                 \/ st.preDotState = 0
                 \/ /\ st.preDotState = 1
                    /\ st.startDot = st.end - 1
                    /\ st.startDot = st.startPart + 1
    IN
    [root |-> IF isAbsolute THEN <<sep(api)>> ELSE <<>>,
     dir  |-> IF st.startPart > 0 THEN slice(p, 0, st.startPart - 1)
              ELSE IF isAbsolute THEN <<sep(api)>> ELSE <<>>,
     base |-> IF st.end # -1 THEN slice(p, start, st.end) ELSE <<>>,
     ext  |-> IF st.end # -1 /\ ~noExt THEN slice(p, st.startDot, st.end) ELSE <<>>,
     name |-> IF st.end = -1 THEN <<>>
              ELSE IF noExt THEN slice(p, start, st.end)
              ELSE slice(p, start, st.startDot)]

\* pathApi.parse(path): the record {root, dir, base, ext, name}
pathApi_parse(api, p) ==
    IF Len(p) = 0
    THEN [root |-> <<>>, dir |-> <<>>, base |-> <<>>, ext |-> <<>>, name |-> <<>>]
    ELSE IF charAt(p, 0) = sep(api)
    THEN parseResult(api, p, TRUE, parseScan(api, p, 1))
    ELSE parseResult(api, p, FALSE, parseScan(api, p, 0))

\* the result of pathApi.extname(path) after its scan
extnameResult(p, st) ==
    IF \/ st.startDot = -1
       \/ st.end = -1
       \/ st.preDotState = 0
       \/ /\ st.preDotState = 1
          /\ st.startDot = st.end - 1
          /\ st.startDot = st.startPart + 1
    THEN <<>>
    ELSE slice(p, st.startDot, st.end)

\* pathApi.extname(path): its scan is that of parse, run down to index 0
pathApi_extname(api, p) == extnameResult(p, parseScan(api, p, 0))

\* pathApi.isAbsolute(path)
pathApi_isAbsolute(api, p) == Len(p) > 0 /\ charAt(p, 0) = sep(api)

\* the working directory that pathApi.resolve falls back on
cwd(api) == <<sep(api), "w">>

\* the loop of pathApi.resolve(...args), from the last argument backwards,
\* with the working directory after the first argument
\*   st = [resolvedPath, resolvedAbsolute]
RECURSIVE resolveFrom(_, _, _, _)
resolveFrom(api, args, i, st) ==
    IF i < -1 \/ st.resolvedAbsolute THEN st
    ELSE LET arg == IF i >= 0 THEN args[i + 1] ELSE cwd(api) IN
         IF Len(arg) = 0 THEN resolveFrom(api, args, i - 1, st)
         ELSE resolveFrom(api, args, i - 1,
                  [resolvedPath     |-> arg \o <<sep(api)>> \o st.resolvedPath,
                   resolvedAbsolute |-> charAt(arg, 0) = sep(api)])

\* what pathApi.resolve returns after its loop ended in st
resolveResult(api, st) ==
    IF st.resolvedAbsolute
    THEN <<sep(api)>> \o normalizeString(st.resolvedPath, FALSE, sep(api))
    ELSE IF Len(normalizeString(st.resolvedPath, TRUE, sep(api))) > 0
         THEN normalizeString(st.resolvedPath, TRUE, sep(api))
         ELSE <<".">>

\* pathApi.resolve(...args)
pathApi_resolve(api, args) ==
    resolveResult(api, resolveFrom(api, args, Len(args) - 1,
                           [resolvedPath |-> <<>>, resolvedAbsolute |-> FALSE]))

\* n times "..", with the separator in between
RECURSIVE dotdots(_, _)
dotdots(api, n) ==
    IF n = 0 THEN <<>>
    ELSE IF n = 1 THEN <<".", ".">>
    ELSE dotdots(api, n - 1) \o <<sep(api), ".", ".">>

\* the first loop of pathApi.relative: the number of leading characters,
\* after the root, that the resolved from and to share (at most length)
relativeShared(from, to, length) ==
    LET S == {k \in 0..(length - 1) : charAt(from, 1 + k) # charAt(to, 1 + k)} IN
    IF S = {} THEN length ELSE CHOOSE k \in S : \A j \in S : k <= j

\* lastCommonSep as the first loop of pathApi.relative leaves it when it
\* ends at i: the offset of the last separator among the shared characters
relativeLoopSep(api, from, i) ==
    IF lastIndexIn(from, sep(api), 1, i) = -1 THEN -1
    ELSE lastIndexIn(from, sep(api), 1, i) - 1

\* lastCommonSep when the first loop of pathApi.relative has ended at i
relativeLastCommonSep(api, from, to, length, i) ==
    IF i = length /\ Len(to) - 1 <= length /\ Len(from) - 1 > length
    THEN IF charAt(from, 1 + i) = sep(api) THEN i
         ELSE IF i = 0 THEN 0
         ELSE relativeLoopSep(api, from, i)
    ELSE relativeLoopSep(api, from, i)

\* what pathApi.relative builds from lastCommonSep: one ".." for every
\* segment of from after it, then the rest of to
relativeOut(api, from, to, lastCommonSep) ==
    dotdots(api, Cardinality({k \in (lastCommonSep + 2)..Len(from) :
                                 k = Len(from) \/ charAt(from, k) = sep(api)}))
      \o slice(to, 1 + lastCommonSep, Len(to))

\* pathApi.relative once from and to are resolved and differ
relativeResolved(api, from, to, length, i) ==
    IF i = length /\ Len(to) - 1 > length /\ charAt(to, 1 + i) = sep(api)
    THEN slice(to, 1 + i + 1, Len(to))
    ELSE IF i = length /\ Len(to) - 1 > length /\ i = 0
    THEN slice(to, 1 + i, Len(to))
    ELSE relativeOut(api, from, to, relativeLastCommonSep(api, from, to, length, i))

\* the least of two numbers
min(a, b) == IF a < b THEN a ELSE b

\* pathApi.relative on the resolved from and to, without the second test
\* for equal paths
relativeOfResolved_unchecked(api, from, to) ==
    relativeResolved(api, from, to, min(Len(from), Len(to)) - 1,
        relativeShared(from, to, min(Len(from), Len(to)) - 1))

\* pathApi.relative on the resolved from and to
relativeOfResolved(api, from, to) ==
    IF from = to THEN <<>>
    ELSE relativeResolved(api, from, to, min(Len(from), Len(to)) - 1,
             relativeShared(from, to, min(Len(from), Len(to)) - 1))

\* pathApi.relative(from, to)
pathApi_relative(api, from, to) ==
    IF from = to THEN <<>>
    ELSE relativeOfResolved(api, pathApi_resolve(api, <<from>>),
                            pathApi_resolve(api, <<to>>))

\* ---------------------------------------------------------------------
\* validation
\* ---------------------------------------------------------------------

\* an AppError value, as a validator returns it on failure
AppError == <<"AppError">>

\* the default onError handler
THROW_THE_ERROR == <<"THROW_THE_ERROR">>
\* a handler supplied by the caller
callerOnError == <<"callerOnError">>

\* a validator that rejects the strings that hold a "."
validateFilepathData_rejectsDots(input) ==
    IF \E i \in 1..Len(input) : input[i] = "." THEN AppError ELSE input

\* validateFilepathData(input): the input itself, for every string
validateFilepathData(input) == input

\* mustBeFilepathData(input, {onError}): the validated input; the list of
\* errors handed to onError
mustBeFilepathData(input, onError) ==
    LET res == validateFilepathData(input) IN
    IF res = AppError
    THEN [ret |-> undefined, errors |-> <<[handler |-> onError, error |-> res]>>]
    ELSE [ret |-> res, errors |-> <<>>]

\* ---------------------------------------------------------------------
\* class Filepath (normalises its input)
\* ---------------------------------------------------------------------

\* one recorded call of a pathApi function
Call(fn, api, args, ret) == [fn |-> fn, api |-> api, args |-> args, ret |-> ret]

\* the constructor, storing its input without normalising it
Filepath_constructor_verbatim(input, opts) ==
    LET onError == IF opts.onError = undefined THEN THROW_THE_ERROR ELSE opts.onError
        pathApi == IF opts.pathApi = undefined THEN path ELSE opts.pathApi
        checked == mustBeFilepathData(input, onError)
    IN [ret    |-> [value |-> input, base |-> opts.base, pathApi |-> pathApi,
                    parts |-> <<>>],
        calls  |-> <<>>,
        errors |-> checked.errors]

\* the constructor, parsing the value at once and stashing the parts
Filepath_constructor_eagerParse(input, opts) ==
    LET onError == IF opts.onError = undefined THEN THROW_THE_ERROR ELSE opts.onError
        pathApi == IF opts.pathApi = undefined THEN path ELSE opts.pathApi
        normalised == pathApi_normalize(pathApi, input)
        checked == mustBeFilepathData(normalised, onError)
        parts == pathApi_parse(pathApi, normalised)
    IN [ret    |-> [value |-> normalised, base |-> opts.base, pathApi |-> pathApi,
                    parts |-> <<parts>>],
        calls  |-> <<Call("normalize", pathApi, <<input>>, normalised),
                     Call("parse", pathApi, <<normalised>>, parts)>>,
        errors |-> checked.errors]

\* new Filepath(input, {onError, pathApi, base}):
\*   ret    the new instance, #_parts unset
\*   calls  the pathApi calls made, in order
\*   errors the errors handed to onError
Filepath_constructor(input, opts) ==
    LET onError == IF opts.onError = undefined THEN THROW_THE_ERROR ELSE opts.onError
        pathApi == IF opts.pathApi = undefined THEN path ELSE opts.pathApi
        base    == opts.base
        normalised == pathApi_normalize(pathApi, input)
        checked == mustBeFilepathData(normalised, onError)
    IN [ret    |-> [value |-> normalised, base |-> base, pathApi |-> pathApi,
                    parts |-> <<>>],
        calls  |-> <<Call("normalize", pathApi, <<input>>, normalised)>>,
        errors |-> checked.errors]

\* this.basename(ext?)
Filepath_basename(this, ext) ==
    LET r == pathApi_basename(this.pathApi, this.value, ext) IN
    [ret |-> r, calls |-> <<Call("basename", this.pathApi, <<this.value, ext>>, r)>>]

\* this.extname()
Filepath_extname(this) ==
    LET r == pathApi_extname(this.pathApi, this.value) IN
    [ret |-> r, calls |-> <<Call("extname", this.pathApi, <<this.value>>, r)>>]

\* this.isAbsolute()
Filepath_isAbsolute(this) ==
    LET r == pathApi_isAbsolute(this.pathApi, this.value) IN
    [ret |-> r, calls |-> <<Call("isAbsolute", this.pathApi, <<this.value>>, r)>>]

\* the `base` getter
Filepath_base(this) == [ret |-> this.base, calls |-> <<>>]

\* the `pathApi` getter
Filepath_pathApi(this) == [ret |-> this.pathApi, calls |-> <<>>]

\* dirname() that binds the result to the default algebra when the caller
\* gives none
Filepath_dirname_defaultApi(this, opts) ==
    LET d == pathApi_dirname(this.pathApi, this.value)
        c == Filepath_constructor(d, [onError |-> opts.onError,
                 pathApi |-> opts.pathApi,
                 base |-> IF opts.base = undefined THEN this.base ELSE opts.base])
    IN [ret    |-> c.ret,
        calls  |-> <<Call("dirname", this.pathApi, <<this.value>>, d)>> \o c.calls,
        errors |-> c.errors]

\* dirname() that builds the result from this Filepath's own value
Filepath_dirname_sameValue(this, opts) ==
    LET c == Filepath_constructor(this.value,
                 [onError |-> opts.onError,
                  pathApi |-> IF opts.pathApi = undefined THEN this.pathApi
                              ELSE opts.pathApi,
                  base |-> IF opts.base = undefined THEN this.base ELSE opts.base])
    IN [ret |-> c.ret, calls |-> c.calls, errors |-> c.errors]

\* dirname() that hands the parent on with a separator after it
Filepath_dirname_trailingSeparator(this, opts) ==
    LET d == pathApi_dirname(this.pathApi, this.value) \o <<sep(this.pathApi)>>
        c == Filepath_constructor(d,
                 [onError |-> opts.onError,
                  pathApi |-> IF opts.pathApi = undefined THEN this.pathApi
                              ELSE opts.pathApi,
                  base |-> IF opts.base = undefined THEN this.base ELSE opts.base])
    IN [ret    |-> c.ret,
        calls  |-> <<Call("dirname", this.pathApi, <<this.value>>, d)>> \o c.calls,
        errors |-> c.errors]

\* dirname() that asks the algebra given, when one is given, for the parent
Filepath_dirname_asksGivenApi(this, opts) ==
    LET pathApi == IF opts.pathApi = undefined THEN this.pathApi ELSE opts.pathApi
        d == pathApi_dirname(pathApi, this.value)
        c == Filepath_constructor(d,
                 [onError |-> opts.onError, pathApi |-> pathApi,
                  base |-> IF opts.base = undefined THEN this.base ELSE opts.base])
    IN [ret    |-> c.ret,
        calls  |-> <<Call("dirname", pathApi, <<this.value>>, d)>> \o c.calls,
        errors |-> c.errors]

\* dirname() that normalises the parent with the receiver's algebra and then
\* binds the result to the algebra given
Filepath_dirname_normalizesWithOwn(this, opts) ==
    LET d == pathApi_dirname(this.pathApi, this.value)
        c == Filepath_constructor(d,
                 [onError |-> opts.onError, pathApi |-> this.pathApi,
                  base |-> IF opts.base = undefined THEN this.base ELSE opts.base])
    IN [ret    |-> [c.ret EXCEPT !.pathApi = IF opts.pathApi = undefined
                                              THEN this.pathApi ELSE opts.pathApi],
        calls  |-> <<Call("dirname", this.pathApi, <<this.value>>, d)>> \o c.calls,
        errors |-> c.errors]

\* dirname() that normalises its own value before asking for the parent
Filepath_dirname_normalizesFirst(this, opts) ==
    LET n == pathApi_normalize(this.pathApi, this.value)
        d == pathApi_dirname(this.pathApi, n)
        c == Filepath_constructor(d,
                 [onError |-> opts.onError,
                  pathApi |-> IF opts.pathApi = undefined THEN this.pathApi
                              ELSE opts.pathApi,
                  base |-> IF opts.base = undefined THEN this.base ELSE opts.base])
    IN [ret    |-> c.ret,
        calls  |-> <<Call("normalize", this.pathApi, <<this.value>>, n),
                     Call("dirname", this.pathApi, <<n>>, d)>> \o c.calls,
        errors |-> c.errors]

\* this.dirname({onError, pathApi, base})
Filepath_dirname(this, opts) ==
    LET onError == IF opts.onError = undefined THEN THROW_THE_ERROR ELSE opts.onError
        pathApi == IF opts.pathApi = undefined THEN this.pathApi ELSE opts.pathApi
        base    == IF opts.base = undefined THEN this.base ELSE opts.base
        d  == pathApi_dirname(this.pathApi, this.value)
        c  == Filepath_constructor(d, [onError |-> onError, pathApi |-> pathApi,
                                       base |-> base])
    IN [ret    |-> c.ret,
        calls  |-> <<Call("dirname", this.pathApi, <<this.value>>, d)>> \o c.calls,
        errors |-> c.errors]

\* join() that does not hand #_base on
Filepath_join_dropsBase(this, paths) ==
    LET j == pathApi_join(this.pathApi, <<this.value>> \o paths)
        c == Filepath_constructor(j, [onError |-> undefined,
                                      pathApi |-> this.pathApi,
                                      base |-> undefined])
    IN [ret    |-> c.ret,
        calls  |-> <<Call("join", this.pathApi, <<this.value>> \o paths, j)>> \o c.calls,
        errors |-> c.errors]

\* the value and the paths glued with the separator, one after the other
RECURSIVE concatPaths(_, _, _)
concatPaths(api, acc, paths) ==
    IF Len(paths) = 0 THEN acc
    ELSE concatPaths(api, acc \o <<sep(api)>> \o Head(paths), Tail(paths))

\* join() that glues the strings itself instead of calling pathApi.join
Filepath_join_concat(this, paths) ==
    LET j == concatPaths(this.pathApi, this.value, paths)
        c == Filepath_constructor(j, [onError |-> undefined,
                                      pathApi |-> this.pathApi,
                                      base |-> this.base])
    IN [ret |-> c.ret, calls |-> c.calls, errors |-> c.errors]

\* join() that hands the paths to pathApi.join before its own value
Filepath_join_valueLast(this, paths) ==
    LET j == pathApi_join(this.pathApi, paths \o <<this.value>>)
        c == Filepath_constructor(j, [onError |-> undefined,
                                      pathApi |-> this.pathApi,
                                      base |-> this.base])
    IN [ret    |-> c.ret,
        calls  |-> <<Call("join", this.pathApi, paths \o <<this.value>>, j)>> \o c.calls,
        errors |-> c.errors]

\* join() that normalises the joined string itself before constructing
Filepath_join_normalizesTwice(this, paths) ==
    LET j == pathApi_join(this.pathApi, <<this.value>> \o paths)
        n == pathApi_normalize(this.pathApi, j)
        c == Filepath_constructor(n, [onError |-> undefined,
                                      pathApi |-> this.pathApi,
                                      base |-> this.base])
    IN [ret    |-> c.ret,
        calls  |-> <<Call("join", this.pathApi, <<this.value>> \o paths, j),
                     Call("normalize", this.pathApi, <<j>>, n)>> \o c.calls,
        errors |-> c.errors]

\* this.join(...paths)
Filepath_join(this, paths) ==
    LET j == pathApi_join(this.pathApi, <<this.value>> \o paths)
        c == Filepath_constructor(j, [onError |-> undefined,
                                      pathApi |-> this.pathApi,
                                      base |-> this.base])
    IN [ret    |-> c.ret,
        calls  |-> <<Call("join", this.pathApi, <<this.value>> \o paths, j)>> \o c.calls,
        errors |-> c.errors]

\* parse() that overwrites the value with the base name it parsed
Filepath_parse_clobbersValue(this) ==
    LET cached == this.parts # <<>>
        r      == pathApi_parse(this.pathApi, this.value)
        retval == IF cached THEN this.parts[1] ELSE r
    IN [ret   |-> retval,
        this  |-> [this EXCEPT !.value = retval.base,
                               !.parts = IF cached THEN this.parts ELSE <<retval>>],
        calls |-> IF cached THEN <<>>
                  ELSE <<Call("parse", this.pathApi, <<this.value>>, r)>>]

\* parse() that never stashes its result
Filepath_parse_noStash(this) ==
    LET r == pathApi_parse(this.pathApi, this.value) IN
    [ret   |-> r,
     this  |-> this,
     calls |-> <<Call("parse", this.pathApi, <<this.value>>, r)>>]

\* this.parse(): #_parts is <<>> while unset, <<parts>> once stashed
\*   this   the instance after the call
Filepath_parse(this) ==
    LET cached == this.parts # <<>>
        r      == pathApi_parse(this.pathApi, this.value)
        retval == IF cached THEN this.parts[1] ELSE r
    IN [ret   |-> retval,
        this  |-> [this EXCEPT !.parts = IF cached THEN this.parts ELSE <<retval>>],
        calls |-> IF cached THEN <<>>
                  ELSE <<Call("parse", this.pathApi, <<this.value>>, r)>>]

\* parse() that marks #_parts as computed before it asks the algebra
Filepath_parse_failing_marksFirst(this) ==
    IF this.parts # <<>>
    THEN [ret |-> this.parts[1], this |-> this, calls |-> <<>>, thrown |-> <<>>]
    ELSE [ret    |-> undefined,
          this   |-> [this EXCEPT !.parts = <<[root |-> <<>>, dir |-> <<>>,
                                              base |-> <<>>, name |-> <<>>,
                                              ext |-> <<>>]>>],
          calls  |-> <<Call("parse", this.pathApi, <<this.value>>, undefined)>>,
          thrown |-> <<[api |-> this.pathApi, fn |-> "parse"]>>]

\* this.parse() when the algebra's parse throws if called: with #_parts
\* set it is not called; otherwise the throw ends parse() before the
\* assignment to #_parts
\*   thrown  <<>>, or the failure that reaches the caller
Filepath_parse_failing(this) ==
    IF this.parts # <<>>
    THEN [ret |-> this.parts[1], this |-> this, calls |-> <<>>, thrown |-> <<>>]
    ELSE [ret    |-> undefined,
          this   |-> this,
          calls  |-> <<Call("parse", this.pathApi, <<this.value>>, undefined)>>,
          thrown |-> <<[api |-> this.pathApi, fn |-> "parse"]>>]

\* relative() that asks the algebra of the Filepath it is given
Filepath_relative_targetApi(this, to) ==
    LET r == pathApi_relative(to.pathApi, this.value, to.value) IN
    [ret |-> r, calls |-> <<Call("relative", to.pathApi, <<this.value, to.value>>, r)>>]

\* this.relative(to)
Filepath_relative(this, to) ==
    LET r == pathApi_relative(this.pathApi, this.value, to.value) IN
    [ret |-> r, calls |-> <<Call("relative", this.pathApi, <<this.value, to.value>>, r)>>]

\* the arguments that resolve(...paths) hands to pathApi.resolve: with no
\* paths, the base (when there is one) and the value
resolveArguments(this, paths) ==
    IF Len(paths) = 0 /\ this.base # undefined THEN <<this.base, this.value>>
    ELSE <<this.value>> \o paths

\* this.resolve(...paths)
Filepath_resolve(this, paths) ==
    LET r == pathApi_resolve(this.pathApi, resolveArguments(this, paths))
        c == Filepath_constructor(r, [onError |-> undefined,
                                      pathApi |-> this.pathApi,
                                      base |-> this.base])
    IN [ret    |-> c.ret,
        calls  |-> <<Call("resolve", this.pathApi, resolveArguments(this, paths), r)>>
                   \o c.calls,
        errors |-> c.errors]

\* the outcome of a constructor or method call that hands an algebra's
\* failure to onError and goes on with the value computed
Uncaught_reported(r) ==
    LET bad == {i \in 1..Len(r.calls) : Throws(r.calls[i].api, r.calls[i].fn)} IN
    [ret    |-> r.ret,
     calls  |-> r.calls,
     errors |-> IF bad = {} THEN r.errors
                ELSE <<[handler |-> THROW_THE_ERROR, error |-> AppError]>>,
     thrown |-> <<>>]

\* the outcome of a constructor or method call whose algebra calls, were
\* none to throw, are r.calls: the code has no try / catch, so the call
\* ends at the first algebra call that throws, with that failure
\*   thrown  <<>>, or the failure that reaches the caller
Uncaught(r) ==
    LET bad == {i \in 1..Len(r.calls) : Throws(r.calls[i].api, r.calls[i].fn)} IN
    IF bad = {}
    THEN [ret |-> r.ret, calls |-> r.calls, errors |-> r.errors, thrown |-> <<>>]
    ELSE LET first == CHOOSE i \in bad : \A k \in bad : i <= k IN
         [ret    |-> undefined,
          calls  |-> [k \in 1..first |->
                        IF k = first THEN [r.calls[k] EXCEPT !.ret = undefined]
                        ELSE r.calls[k]],
          errors |-> <<>>,
          thrown |-> <<[api |-> r.calls[first].api, fn |-> r.calls[first].fn]>>]

\* ---------------------------------------------------------------------
\* class Filepath of src/v1 (stores its input as given), makeFilepath
\* ---------------------------------------------------------------------

\* the src/v1 constructor, normalising its input
FilepathV1_constructor_normalising(input, opts) ==
    LET onError == IF opts.onError = undefined THEN THROW_THE_ERROR ELSE opts.onError
        pathApi == IF opts.pathApi = undefined THEN path ELSE opts.pathApi
        normalised == pathApi_normalize(pathApi, input)
        checked == mustBeFilepathData(normalised, onError)
    IN [ret    |-> [value |-> normalised, base |-> opts.base, pathApi |-> pathApi],
        calls  |-> <<Call("normalize", pathApi, <<input>>, normalised)>>,
        errors |-> checked.errors]

\* new Filepath(input, {onError, pathApi, base})
FilepathV1_constructor(input, opts) ==
    LET onError == IF opts.onError = undefined THEN THROW_THE_ERROR ELSE opts.onError
        pathApi == IF opts.pathApi = undefined THEN path ELSE opts.pathApi
        base    == opts.base
        checked == mustBeFilepathData(input, onError)
    IN [ret    |-> [value |-> input, base |-> base, pathApi |-> pathApi],
        calls  |-> <<>>,
        errors |-> checked.errors]

\* the src/v1 basename(), not handing ext on to the algebra
FilepathV1_basename_dropsExt(this, ext) ==
    LET r == pathApi_basename(this.pathApi, this.value, undefined) IN
    [ret |-> r, calls |-> <<Call("basename", this.pathApi, <<this.value>>, r)>>]

\* this.basename(ext?)
FilepathV1_basename(this, ext) ==
    LET r == pathApi_basename(this.pathApi, this.value, ext) IN
    [ret |-> r, calls |-> <<Call("basename", this.pathApi, <<this.value, ext>>, r)>>]

\* the `base` getter
FilepathV1_base(this) == this.base

\* the `pathApi` getter
FilepathV1_pathApi(this) == this.pathApi

\* makeFilepath() that builds the Filepath without the caller's base and
\* pathApi
makeFilepath_dropsOptions(input, opts) ==
    FilepathV1_constructor(input, [onError |-> opts.onError,
                                   pathApi |-> undefined, base |-> undefined])

\* makeFilepath(input, {onError, pathApi, base}) with no functional options
makeFilepath(input, opts) ==
    LET onError == IF opts.onError = undefined THEN THROW_THE_ERROR ELSE opts.onError
        pathApi == IF opts.pathApi = undefined THEN path ELSE opts.pathApi
        base    == opts.base
    IN FilepathV1_constructor(input, [onError |-> onError, pathApi |-> pathApi,
                                      base |-> base])

\* ---------------------------------------------------------------------
\* inputs
\* ---------------------------------------------------------------------

Alphabet == {"/", ".", "a"}

RECURSIVE StringsOfLen(_)
StringsOfLen(n) ==
    IF n = 0 THEN {<<>>}
    ELSE {Append(s, c) : s \in StringsOfLen(n - 1), c \in Alphabet}

Strings(n) == UNION {StringsOfLen(k) : k \in 0..n}

\* the strings of the documented examples
exNotNormalised == <<"t", "h", "i", "s", "/", "h", "a", "s", "n", "o", "t", "/", ".", ".", "/", "h", "a", "s", "/", "b", "e", "e", "n", "/", ".", "/", "n", "o", "r", "m", "a", "l", "i", "s", "e", "d">>
exNormalised == <<"t", "h", "i", "s", "/", "h", "a", "s", "/", "b", "e", "e", "n", "/", "n", "o", "r", "m", "a", "l", "i", "s", "e", "d">>
exTmpABC == <<"/", "t", "m", "p", "/", "a", "/", "b", "/", "c">>
exTmpADE == <<"/", "t", "m", "p", "/", "a", "/", "d", "/", "e">>
exTmp == <<"/", "t", "m", "p">>
exExampleTs == <<"e", "x", "a", "m", "p", "l", "e", ".", "t", "s">>
exExample == <<"e", "x", "a", "m", "p", "l", "e">>
exDotTs == <<".", "t", "s">>
exDotPhp == <<".", "p", "h", "p">>
exDotDot == <<".", ".">>
exBashrc == <<".", "b", "a", "s", "h", "r", "c">>
exABC == <<"a", ".", "b", ".", "c">>
exDE == <<"d", "/", "e">>

\* strings that exercise "..", repeated separators and the second separator
Shapes == {<<"a", "/", ".", ".">>,
           <<"a", "/", ".", ".", "/">>,
           <<"/", ".", ".", "/", "a">>,
           <<"a", "/", "/", "a">>,
           <<"a", "\\", "a">>,
           <<"a", "\\", ".", ".", "\\">>,
           <<"\\", "a">>,
           <<"a", "/", "a", "\\", ".">>}

Inputs == Strings(MaxLen) \cup Shapes
          \cup {exNotNormalised, exTmpABC, exTmp, exExampleTs}

\* the inputs of the runs of operations that return a plain value
ScalarInputs == Inputs \cup {exBashrc, exABC, exExample}

Bases == {<<"/", "b">>}

\* the options of a construction
ConstructorOptions ==
    [onError : {undefined, callerOnError},
     pathApi : {undefined} \cup PathApis,
     base    : {undefined} \cup Bases]

\* the options of a dirname() call
DirnameOptions ==
    [onError : {undefined},
     pathApi : {undefined} \cup PathApis,
     base    : {undefined, <<"/", "c">>}]

Segments == {<<>>, exDotDot, <<"a">>}

RECURSIVE SegmentLists(_)
SegmentLists(n) ==
    IF n = 0 THEN {<<>>}
    ELSE SegmentLists(n - 1)
         \cup {Append(l, s) : l \in {x \in SegmentLists(n - 1) : Len(x) = n - 1},
                              s \in Segments}

\* the arguments of a join() call: short lists, the documented example,
\* two zero-length segments
JoinArguments ==
    SegmentLists(MaxSegs) \cup {<<exDotDot, exDotDot, exDE>>, <<<<>>, <<>>>>}

Suffixes == {undefined, <<>>, <<"a">>, <<".", "a">>, <<"/">>, exDotTs, exDotPhp}

\* ---------------------------------------------------------------------
\* state
\* ---------------------------------------------------------------------

VARIABLES
    p,      \* a Filepath instance the caller holds
    q,      \* a second Filepath: the one most recently derived (dirname, join,
            \* resolve), or, in the runs of relative(), one the caller built
    u,      \* an instance of the src/v1 Filepath class
    last,   \* the most recent operation: receiver, arguments, result, calls
    hist,   \* per instance: pathApi.parse calls so far, first parse() result
    depth   \* number of derivations between the constructed value and p; in
            \* a walk (DirnameStep), the number of steps made from p

vars == <<p, q, u, last, hist, depth>>

\* no instance held
null == [value |-> undefined, base |-> undefined, pathApi |-> undefined,
         parts |-> <<>>]
nullV1 == [value |-> undefined, base |-> undefined, pathApi |-> undefined]

noOptions == [onError |-> undefined, pathApi |-> undefined, base |-> undefined]

freshHist == [apiParse |-> 0, first |-> <<>>]

Receiver(slot) == IF slot = "p" THEN p ELSE q

\* the record of one operation
Op(op, slot, this, input, opts, paths, ext, r) ==
    [op |-> op, slot |-> slot, this |-> this, input |-> input, opts |-> opts,
     paths |-> paths, ext |-> ext, ret |-> r.ret, calls |-> r.calls,
     errors |-> r.errors]

\* ---------------------------------------------------------------------
\* operations on the normalising class
\* ---------------------------------------------------------------------

Constructed(input, opts, pp, qq, uu, ll, hh, dd) ==
    LET c == Filepath_constructor(input, opts) IN
    /\ pp = c.ret
    /\ qq = null
    /\ uu = nullV1
    /\ ll = Op("new", "p", null, input, opts, <<>>, undefined, c)
    /\ hh = [p |-> freshHist, q |-> freshHist]
    /\ dd = 0

Init ==
    \E input \in Inputs, opts \in ConstructorOptions :
        Constructed(input, opts, p, q, u, last, hist, depth)

\* the derived value r.ret replaces q; a value derived from q moves q to p
Derived(slot, l) ==
    /\ Receiver(slot) # null
    /\ slot = "q" => depth < MaxDepth
    /\ p' = Receiver(slot)
    /\ q' = l.ret
    /\ hist' = [p |-> hist[slot], q |-> freshHist]
    /\ depth' = IF slot = "q" THEN depth + 1 ELSE depth
    /\ last' = l
    /\ UNCHANGED u

\* q = this.dirname(opts)
Dirname ==
    \E slot \in {"p", "q"}, opts \in DirnameOptions :
        Derived(slot, Op("dirname", slot, Receiver(slot), undefined, opts, <<>>,
                         undefined, Filepath_dirname(Receiver(slot), opts)))

\* q = this.join(...paths)
Join ==
    \E slot \in {"p", "q"}, paths \in JoinArguments :
        Derived(slot, Op("join", slot, Receiver(slot), undefined, noOptions, paths,
                         undefined, Filepath_join(Receiver(slot), paths)))

\* p.basename(ext)
Basename ==
    \E ext \in Suffixes :
        /\ LET r == Filepath_basename(p, ext) IN
           last' = Op("basename", "p", p, undefined, noOptions, <<>>,
                      ext, r @@ [errors |-> <<>>])
        /\ UNCHANGED <<p, q, u, hist, depth>>

\* a method or getter that, on answering, drops what parse() stashed
Answered_invalidates(op, r) ==
    /\ last' = Op(op, "p", p, undefined, noOptions, <<>>, undefined,
                  [ret |-> r.ret, calls |-> r.calls, errors |-> <<>>])
    /\ p' = [p EXCEPT !.parts = <<>>]
    /\ UNCHANGED <<q, u, hist, depth>>

\* an operation on p that returns a plain value has answered r
Answered(op, r) ==
    /\ last' = Op(op, "p", p, undefined, noOptions, <<>>, undefined,
                  [ret |-> r.ret, calls |-> r.calls, errors |-> <<>>])
    /\ UNCHANGED <<p, q, u, hist, depth>>

\* p.extname()
Extname == Answered("extname", Filepath_extname(p))

\* p.isAbsolute()
IsAbsolute == Answered("isAbsolute", Filepath_isAbsolute(p))

\* p.base
GetBase == Answered("base", Filepath_base(p))

\* p.pathApi
GetPathApi == Answered("pathApi", Filepath_pathApi(p))

\* parse() stashing its result in one cell that both instances read
Parsed_sharedCell(slot, this, r) ==
    /\ p' = IF slot = "p" \/ p # null THEN [p EXCEPT !.parts = r.this.parts] ELSE p
    /\ q' = IF slot = "q" \/ q # null THEN [q EXCEPT !.parts = r.this.parts] ELSE q
    /\ hist' = [hist EXCEPT ![slot] =
                   [apiParse |-> @.apiParse + Len(r.calls),
                    first |-> IF @.first = <<>> THEN <<r.ret>> ELSE @.first]]
    /\ last' = Op("parse", slot, this, undefined, noOptions, <<>>, undefined,
                  [ret |-> r.ret, calls |-> r.calls, errors |-> <<>>])
    /\ UNCHANGED <<u, depth>>

\* the receiver in `slot` has answered parse() with r
Parsed(slot, this, r) ==
    /\ p' = IF slot = "p" THEN r.this ELSE p
    /\ q' = IF slot = "q" THEN r.this ELSE q
    /\ hist' = [hist EXCEPT ![slot] =
                   [apiParse |-> @.apiParse + Len(r.calls),
                    first |-> IF @.first = <<>> THEN <<r.ret>> ELSE @.first]]
    /\ last' = Op("parse", slot, this, undefined, noOptions, <<>>, undefined,
                  [ret |-> r.ret, calls |-> r.calls, errors |-> <<>>])
    /\ UNCHANGED <<u, depth>>

\* this.parse()
Parse ==
    \E slot \in {"p", "q"} :
        /\ Receiver(slot) # null
        /\ hist[slot].apiParse < MaxParseOps
        /\ Parsed(slot, Receiver(slot), Filepath_parse(Receiver(slot)))

\* construction, then any run of dirname, join and parse
Next == Dirname \/ Join \/ Parse

Spec == Init /\ [][Next]_vars

\* construction, then any run of the operations that return a plain value
NextScalar == Basename \/ Extname \/ IsAbsolute \/ GetBase \/ GetPathApi

InitScalar ==
    \E input \in ScalarInputs, opts \in ConstructorOptions :
        Constructed(input, opts, p, q, u, last, hist, depth)

SpecScalar == InitScalar /\ [][NextScalar]_vars

\* construction, then any run of the methods and getters
NextAll == Next \/ NextScalar

SpecAll == Init /\ [][NextAll]_vars

\* ---------------------------------------------------------------------
\* runs of basename / extname / isAbsolute, with the algebra calls logged
\* ---------------------------------------------------------------------

\* the record of one operation in a logged run
\*   n    calls of basename / extname / isAbsolute made since construction
\*   log  the algebra calls they made, in order
OpN(op, this, input, opts, ext, r, n, log) ==
    [op |-> op, slot |-> "p", this |-> this, input |-> input, opts |-> opts,
     paths |-> <<>>, ext |-> ext, ret |-> r.ret, calls |-> r.calls,
     errors |-> r.errors, n |-> n, log |-> log]

InitN ==
    \E input \in ScalarInputs, opts \in ConstructorOptions :
        /\ p = Filepath_constructor(input, opts).ret
        /\ q = null
        /\ u = nullV1
        /\ last = OpN("new", null, input, opts, undefined,
                      Filepath_constructor(input, opts), 0, <<>>)
        /\ hist = [p |-> freshHist, q |-> freshHist]
        /\ depth = 0

\* a method that answers from what earlier calls returned: it asks the
\* algebra only when the log holds no call with the same arguments
AnsweredN_memoised(op, ext, r) ==
    /\ last.n < MaxCalls
    /\ last' = OpN(op, p, undefined, noOptions, ext,
                   [ret |-> r.ret,
                    calls |-> IF \E i \in 1..Len(last.log) : last.log[i] = r.calls[1]
                              THEN <<>> ELSE r.calls,
                    errors |-> <<>>],
                   last.n + 1,
                   IF \E i \in 1..Len(last.log) : last.log[i] = r.calls[1]
                   THEN last.log ELSE last.log \o r.calls)
    /\ UNCHANGED <<p, q, u, hist, depth>>

\* p.basename(ext), p.extname() or p.isAbsolute() has answered r
AnsweredN(op, ext, r) ==
    /\ last.n < MaxCalls
    /\ last' = OpN(op, p, undefined, noOptions, ext,
                   [ret |-> r.ret, calls |-> r.calls, errors |-> <<>>],
                   last.n + 1, last.log \o r.calls)
    /\ UNCHANGED <<p, q, u, hist, depth>>

BasenameN ==
    \E ext \in {undefined, exDotTs, exDotPhp} :
        AnsweredN("basename", ext, Filepath_basename(p, ext))

ExtnameN == AnsweredN("extname", undefined, Filepath_extname(p))

IsAbsoluteN == AnsweredN("isAbsolute", undefined, Filepath_isAbsolute(p))

NextN == BasenameN \/ ExtnameN \/ IsAbsoluteN

\* construction, then up to MaxCalls calls of basename / extname / isAbsolute
SpecN == InitN /\ [][NextN]_vars

\* ---------------------------------------------------------------------
\* parse() and a caller that writes to the object parse() returned
\* ---------------------------------------------------------------------

\* the fields of a ParsedPath, and what the caller writes to one
ParsedPathFields == {"root", "dir", "base", "name", "ext"}
Written == {<<>>, <<"!">>}

\* the record of one operation of such a run
\*   ret     the returned object, as the caller reads it now
\*   handle  <<slot>> when the returned object is the one that the instance
\*           in slot holds in #_parts; <<>> when no instance holds it
OpA(op, this, input, opts, r, handle) ==
    Op(op, "p", this, input, opts, <<>>, undefined, r) @@ [handle |-> handle]

InitA ==
    \E input \in Inputs, opts \in ConstructorOptions :
        /\ p = Filepath_constructor(input, opts).ret
        /\ q = null
        /\ u = nullV1
        /\ last = OpA("new", null, input, opts, Filepath_constructor(input, opts), <<>>)
        /\ hist = [p |-> freshHist, q |-> freshHist]
        /\ depth = 0

\* parse() that returns a copy of the object it holds in #_parts
ParsedA_returnsCopy(this, r) ==
    /\ p' = r.this
    /\ hist' = [hist EXCEPT !.p =
                   [apiParse |-> @.apiParse + Len(r.calls),
                    first |-> IF @.first = <<>> THEN <<r.ret>> ELSE @.first]]
    /\ last' = OpA("parse", this, undefined, noOptions,
                   [ret |-> r.ret, calls |-> r.calls, errors |-> <<>>], <<>>)
    /\ UNCHANGED <<q, u, depth>>

\* p.parse() has answered r: `retval` is the object that #_parts holds after
\* the call (the one it held before, or the one just made and stashed)
ParsedA(this, r) ==
    /\ p' = r.this
    /\ hist' = [hist EXCEPT !.p =
                   [apiParse |-> @.apiParse + Len(r.calls),
                    first |-> IF @.first = <<>> THEN <<r.ret>> ELSE @.first]]
    /\ last' = OpA("parse", this, undefined, noOptions,
                   [ret |-> r.ret, calls |-> r.calls, errors |-> <<>>], <<"p">>)
    /\ UNCHANGED <<q, u, depth>>

ParseA == ParsedA(p, Filepath_parse(p))

\* the caller assigns to a field of the object the last parse() returned
WriteA ==
    \E field \in ParsedPathFields, value \in Written :
        /\ last.op \in {"parse", "write"}
        /\ p' = IF last.handle = <<"p">>
                THEN [p EXCEPT !.parts = <<[p.parts[1] EXCEPT ![field] = value]>>]
                ELSE p
        /\ last' = OpA("write", p, undefined, noOptions,
                       [ret |-> [last.ret EXCEPT ![field] = value],
                        calls |-> <<>>, errors |-> <<>>],
                       last.handle)
        /\ UNCHANGED <<q, u, hist, depth>>

NextA == ParseA \/ WriteA

\* construction, then any run of parse() and of writes to what it returned
SpecA == InitA /\ [][NextA]_vars

\* ---------------------------------------------------------------------
\* operations on instances bound to algebras that may throw
\* ---------------------------------------------------------------------

FailingInputs == {<<>>, <<"a">>, <<"/", "a", "/", "a">>, <<"a", "/", ".", ".">>,
                  exExampleTs}

FailingApis == {undefined, posix, brittleApi, throwingApi}

\* the record of one operation on p that may have thrown
OpF(op, this, input, opts, paths, ext, o) ==
    [op |-> op, slot |-> "p", this |-> this, input |-> input, opts |-> opts,
     paths |-> paths, ext |-> ext, ret |-> o.ret, calls |-> o.calls,
     errors |-> o.errors, thrown |-> o.thrown]

\* p = new Filepath(input, opts), unless the constructor throws
ConstructedF(input, opts, o) ==
    /\ p = IF o.thrown = <<>> THEN o.ret ELSE null
    /\ q = null
    /\ u = nullV1
    /\ last = OpF("new", null, input, opts, <<>>, undefined, o)
    /\ hist = [p |-> freshHist, q |-> freshHist]
    /\ depth = 0

InitF ==
    \E input \in FailingInputs,
       opts \in [onError : {undefined, callerOnError}, pathApi : FailingApis,
                 base : {undefined} \cup Bases] :
        ConstructedF(input, opts, Uncaught(Filepath_constructor(input, opts)))

\* a method of p that returns a plain value has ended with outcome o
AnsweredF(op, ext, o) ==
    /\ p # null
    /\ last' = OpF(op, p, undefined, noOptions, <<>>, ext, o)
    /\ UNCHANGED <<p, q, u, hist, depth>>

\* a method of p that returns a Filepath has ended with outcome o
DerivedF(op, opts, paths, o) ==
    /\ p # null
    /\ q' = IF o.thrown = <<>> THEN o.ret ELSE q
    /\ last' = OpF(op, p, undefined, opts, paths, undefined, o)
    /\ UNCHANGED <<p, u, hist, depth>>

\* p.parse() has ended with outcome o; r is what it does when nothing throws
ParsedF(r, o) ==
    /\ p # null
    /\ hist.p.apiParse < MaxParseOps
    /\ p' = IF o.thrown = <<>> THEN r.this ELSE p
    /\ hist' = [hist EXCEPT !.p =
                   [apiParse |-> @.apiParse + Len(o.calls),
                    first |-> IF @.first = <<>> /\ o.thrown = <<>>
                              THEN <<o.ret>> ELSE @.first]]
    /\ last' = OpF("parse", p, undefined, noOptions, <<>>, undefined, o)
    /\ UNCHANGED <<q, u, depth>>

BasenameF ==
    \E ext \in {undefined, exDotTs} :
        AnsweredF("basename", ext,
                  Uncaught(Filepath_basename(p, ext) @@ [errors |-> <<>>]))

ExtnameF ==
    AnsweredF("extname", undefined, Uncaught(Filepath_extname(p) @@ [errors |-> <<>>]))

IsAbsoluteF ==
    AnsweredF("isAbsolute", undefined,
              Uncaught(Filepath_isAbsolute(p) @@ [errors |-> <<>>]))

DirnameF ==
    \E opts \in [onError : {undefined, callerOnError}, pathApi : FailingApis,
                  base : {undefined}] :
        DerivedF("dirname", opts, <<>>, Uncaught(Filepath_dirname(p, opts)))

JoinF ==
    \E paths \in {<<>>, <<exDotDot>>, <<<<"a">>, <<>>>>} :
        DerivedF("join", noOptions, paths, Uncaught(Filepath_join(p, paths)))

ParseF ==
    ParsedF(Filepath_parse(p), Uncaught(Filepath_parse(p) @@ [errors |-> <<>>]))

NextF == BasenameF \/ ExtnameF \/ IsAbsoluteF \/ DirnameF \/ JoinF \/ ParseF

\* construction, then any run of the methods, on algebras that may throw
SpecF == InitF /\ [][NextF]_vars

\* ---------------------------------------------------------------------
\* operations on two Filepaths: relative(), resolve()
\* ---------------------------------------------------------------------

exAnExample == <<"/", "t", "h", "i", "s", "/", "i", "s", "/", "a", "n", "/", "e", "x", "a", "m", "p", "l", "e">>
exAnotherExample == <<"/", "t", "h", "i", "s", "/", "i", "s", "/", "a", "n", "o", "t", "h", "e", "r", "/", "e", "x", "a", "m", "p", "l", "e">>
exRelative == <<".", ".", "/", ".", ".", "/", "a", "n", "o", "t", "h", "e", "r", "/", "e", "x", "a", "m", "p", "l", "e">>

\* the values of the two Filepaths: absolute and relative ones, under the
\* working directory, under the base, and elsewhere
PairInputs == {<<>>, <<"x">>, <<"/">>, <<"/", "x">>, <<"/", "x", "/">>,
               <<"/", "w">>, <<"/", "w", "/", "x">>, <<"/", "b", "/", "x">>,
               <<".", ".", "/", "x">>, <<"\\", "w", "\\", "x">>,
               exAnExample, exAnotherExample}

PairOptions ==
    [onError : {undefined}, pathApi : {undefined} \cup PathApis,
     base : {undefined} \cup Bases]

ResolveArguments == {<<>>, <<<<"x">>>>, <<<<"/", "x">>, <<>>, exDotDot>>}

\* the record of one operation of a Filepath on another
OpR(op, slot, this, to, paths, r) ==
    [op |-> op, slot |-> slot, this |-> this, to |-> to, paths |-> paths,
     ret |-> r.ret, calls |-> r.calls, errors |-> r.errors]

\* p and q are two Filepaths the caller has built
InitR ==
    \E input \in PairInputs, opts \in PairOptions,
       input2 \in PairInputs, opts2 \in PairOptions :
        /\ p = Filepath_constructor(input, opts).ret
        /\ q = Filepath_constructor(input2, opts2).ret
        /\ u = nullV1
        /\ last = OpR("new", "q", null, null, <<>>, Filepath_constructor(input2, opts2))
        /\ hist = [p |-> freshHist, q |-> freshHist]
        /\ depth = 0

\* this.relative(to), from either of the two to the other
Relative ==
    \E slot \in {"p", "q"} :
        /\ last' = OpR("relative", slot, Receiver(slot),
                       IF slot = "p" THEN q ELSE p, <<>>,
                       Filepath_relative(Receiver(slot), IF slot = "p" THEN q ELSE p)
                         @@ [errors |-> <<>>])
        /\ UNCHANGED <<p, q, u, hist, depth>>

\* q = p.resolve(...paths)
Resolve ==
    \E paths \in ResolveArguments :
        /\ q' = Filepath_resolve(p, paths).ret
        /\ last' = OpR("resolve", "p", p, null, paths, Filepath_resolve(p, paths))
        /\ UNCHANGED <<p, u, hist, depth>>

NextR == Relative \/ Resolve

\* two Filepaths, then any run of relative() and resolve()
SpecR == InitR /\ [][NextR]_vars

\* ---------------------------------------------------------------------
\* parse() on an algebra whose parse throws on some calls
\* ---------------------------------------------------------------------

InitP ==
    \E input \in Inputs, opts \in [onError : {undefined}, pathApi : {posix, flakyApi},
                                    base : {undefined} \cup Bases] :
        /\ p = Filepath_constructor(input, opts).ret
        /\ q = null
        /\ u = nullV1
        /\ last = OpF("new", null, input, opts, <<>>, undefined,
                      Filepath_constructor(input, opts) @@ [thrown |-> <<>>])
        /\ hist = [p |-> freshHist, q |-> freshHist]
        /\ depth = 0

\* p.parse() has ended with outcome o
ParsedP(o) ==
    /\ hist.p.apiParse <= MaxParseOps
    /\ p' = o.this
    /\ hist' = [hist EXCEPT !.p =
                   [apiParse |-> @.apiParse + Len(o.calls),
                    first |-> IF @.first = <<>> /\ o.thrown = <<>>
                              THEN <<o.ret>> ELSE @.first]]
    /\ last' = OpF("parse", p, undefined, noOptions, <<>>, undefined,
                   [ret |-> o.ret, calls |-> o.calls, errors |-> <<>>,
                    thrown |-> o.thrown])
    /\ UNCHANGED <<q, u, depth>>

\* p.parse(), the algebra's parse answering if called
ParseAnswers == ParsedP(Filepath_parse(p) @@ [thrown |-> <<>>])

\* p.parse(), the algebra's parse throwing if called
ParseThrows ==
    /\ p.pathApi = flakyApi
    /\ ParsedP(Filepath_parse_failing(p))

NextP == ParseAnswers \/ ParseThrows

\* construction, then any run of parse() calls
SpecP == InitP /\ [][NextP]_vars

\* ---------------------------------------------------------------------
\* a caller walking up from a Filepath: q = p.dirname(), q = q.dirname(), ...
\* ---------------------------------------------------------------------

\* where the walks start: short strings, and some of several segments
WalkInputs == Strings(MaxLen) \cup Shapes
              \cup {exTmpABC, <<"a", "/", "a", "/", "a">>, <<".", ".", "/", ".", ".", "/", "a">>}

\* p is a Filepath bound to the POSIX algebra
InitD ==
    \E input \in WalkInputs,
       opts \in [onError : {undefined}, pathApi : {undefined, posix},
                 base : {undefined} \cup Bases] :
        Constructed(input, opts, p, q, u, last, hist, depth)

\* q = (the Filepath the walk has reached).dirname(); depth counts the steps
DirnameStep ==
    /\ depth < MaxWalk
    /\ q' = Filepath_dirname(IF q = null THEN p ELSE q, noOptions).ret
    /\ depth' = depth + 1
    /\ last' = Op("dirname", IF q = null THEN "p" ELSE "q",
                  IF q = null THEN p ELSE q, undefined, noOptions, <<>>, undefined,
                  Filepath_dirname(IF q = null THEN p ELSE q, noOptions))
    /\ UNCHANGED <<p, u, hist>>

NextD == DirnameStep

\* the walk, up to MaxWalk steps long
SpecD == InitD /\ [][NextD]_vars

\* ---------------------------------------------------------------------
\* the two classes side by side: p and u built from the same arguments
\* ---------------------------------------------------------------------

\* the record of one operation made on both
\*   ret, calls      of the normalising class
\*   retV1, callsV1  of the src/v1 class
OpB(op, input, opts, ext, r, rV1) ==
    [op |-> op, input |-> input, opts |-> opts, ext |-> ext,
     ret |-> r.ret, calls |-> r.calls, retV1 |-> rV1.ret, callsV1 |-> rV1.calls]

InitB ==
    \E input \in Inputs, opts \in ConstructorOptions :
        /\ p = Filepath_constructor(input, opts).ret
        /\ q = null
        /\ u = FilepathV1_constructor(input, opts).ret
        /\ last = OpB("new", input, opts, undefined,
                      Filepath_constructor(input, opts),
                      FilepathV1_constructor(input, opts))
        /\ hist = [p |-> freshHist, q |-> freshHist]
        /\ depth = 0

\* p.basename(ext) and u.basename(ext)
BasenameB ==
    \E ext \in Suffixes :
        /\ last' = OpB("basename", last.input, last.opts, ext,
                       Filepath_basename(p, ext), FilepathV1_basename(u, ext))
        /\ UNCHANGED <<p, q, u, hist, depth>>

NextB == BasenameB

SpecB == InitB /\ [][NextB]_vars

\* ---------------------------------------------------------------------
\* operations on the src/v1 class
\* ---------------------------------------------------------------------

ConstructedV1(op, c, input, opts, pp, qq, uu, ll, hh, dd) ==
    /\ pp = null
    /\ qq = null
    /\ uu = c.ret
    /\ ll = Op(op, "u", nullV1, input, opts, <<>>, undefined, c)
    /\ hh = [p |-> freshHist, q |-> freshHist]
    /\ dd = 0

InitV1 ==
    \E input \in Inputs, opts \in ConstructorOptions :
        ConstructedV1("new", FilepathV1_constructor(input, opts), input, opts,
                      p, q, u, last, hist, depth)

\* u = new Filepath(input, opts)
NewFilepathV1 ==
    \E input \in Inputs, opts \in ConstructorOptions :
        ConstructedV1("new", FilepathV1_constructor(input, opts), input, opts,
                      p', q', u', last', hist', depth')

\* u = makeFilepath(input, opts)
MakeFilepath ==
    \E input \in Inputs, opts \in ConstructorOptions :
        ConstructedV1("makeFilepath", makeFilepath(input, opts), input, opts,
                      p', q', u', last', hist', depth')

\* u.basename(ext)
BasenameV1 ==
    \E ext \in Suffixes :
        /\ LET r == FilepathV1_basename(u, ext) IN
           last' = Op("basename", "u", u, undefined, noOptions, <<>>, ext,
                      r @@ [errors |-> <<>>])
        /\ UNCHANGED <<p, q, u, hist, depth>>

NextV1 == NewFilepathV1 \/ MakeFilepath \/ BasenameV1

SpecV1 == InitV1 /\ [][NextV1]_vars

\* ---------------------------------------------------------------------
\* properties
\* ---------------------------------------------------------------------

\* the algebra a constructor call binds: the given one, or the default
BoundApi(opts) == IF opts.pathApi = undefined THEN path ELSE opts.pathApi

\* b ends with the string ext
EndsWith(b, ext) ==
    /\ Len(ext) <= Len(b)
    /\ SubSeq(b, Len(b) - Len(ext) + 1, Len(b)) = ext

\* the segments of the string s: what stands between its separators,
\* without the zero-length ones and the current-directory ones
RECURSIVE segmentsFrom(_, _, _, _)
segmentsFrom(s, separator, cur, acc) ==
    LET done == IF cur = <<>> \/ cur = <<".">> THEN acc ELSE Append(acc, cur) IN
    IF s = <<>> THEN done
    ELSE IF Head(s) = separator THEN segmentsFrom(Tail(s), separator, <<>>, done)
    ELSE segmentsFrom(Tail(s), separator, Append(cur, Head(s)), acc)

\* the segments of all the strings of args, in order
RECURSIVE segmentsOfAll(_, _)
segmentsOfAll(api, args) ==
    IF args = <<>> THEN <<>>
    ELSE segmentsFrom(Head(args), sep(api), <<>>, <<>>)
         \o segmentsOfAll(api, Tail(args))

\* segs after every name that is followed by ".." has been taken out
\* together with that ".."
RECURSIVE cancelled(_)
cancelled(segs) ==
    LET at == {i \in 1..Len(segs) - 1 :
                  segs[i] # <<".", ".">> /\ segs[i + 1] = <<".", ".">>} IN
    IF at = {} THEN segs
    ELSE LET i == CHOOSE k \in at : \A m \in at : k <= m IN
         cancelled(SubSeq(segs, 1, i - 1) \o SubSeq(segs, i + 2, Len(segs)))

\* the strings of args that are not zero-length
NonEmptyArgs(args) == SelectSeq(args, LAMBDA a : a # <<>>)

\* the strings args, joined, are a relative path of which nothing is left:
\* every segment is zero-length, "." or a name that a ".." takes back
CollapseToNothing(api, args) ==
    /\ \/ NonEmptyArgs(args) = <<>>
       \/ Head(Head(NonEmptyArgs(args))) # sep(api)
    /\ cancelled(segmentsOfAll(api, args)) = <<>>

\* the last character of the strings args, joined, is a separator
EndWithSeparator(api, args) ==
    LET ne == NonEmptyArgs(args) IN
    /\ ne # <<>>
    /\ ne[Len(ne)][Len(ne[Len(ne)])] = sep(api)

\* C1: the normalising constructor stores pathApi.normalize(input) of the
\* algebra it is bound to: for new Filepath(s, opts), and for the instance
\* that dirname() / join() construct from the string the algebra returned;
\* "this/hasnot/../has/been/./normalised" is stored as
\* "this/has/been/normalised" under the POSIX algebra.
C1_ConstructorNormalises ==
    /\ last.op = "new" =>
          /\ last.ret.value = pathApi_normalize(BoundApi(last.opts), last.input)
          /\ last.ret.pathApi = BoundApi(last.opts)
          /\ (last.input = exNotNormalised /\ BoundApi(last.opts) = posix)
                => last.ret.value = exNormalised
    /\ last.op \in {"dirname", "join"} =>
          last.ret.value = pathApi_normalize(last.ret.pathApi, last.calls[1].ret)

C1_Witness ==
    /\ last.op = "new"
    /\ last.input = exNotNormalised
    /\ last.opts.pathApi = posix
    /\ last.ret.value = exNormalised

\* C2: the src/v1 constructor and makeFilepath accept every string and
\* return a Filepath whose value is the input string, unchanged; onError is
\* not called.
C2_VerbatimValue ==
    last.op \in {"new", "makeFilepath"} =>
        /\ u.value = last.input
        /\ last.ret = u
        /\ last.errors = <<>>

C2_Witness ==
    /\ last.op = "makeFilepath"
    /\ last.input = <<"a", "/", ".", ".">>
    /\ pathApi_normalize(u.pathApi, last.input) # last.input
    /\ u.value = last.input

\* C3: join() hands the receiver's base on (an absent one included);
\* dirname() hands it on unless the caller gives a base, and then the result
\* has the base given.  The receiver may itself be a derived value.
C3_BasePropagation ==
    /\ last.op = "join" => last.ret.base = last.this.base
    /\ last.op = "dirname" =>
          last.ret.base = IF last.opts.base = undefined THEN last.this.base
                          ELSE last.opts.base

C3_Witness ==
    /\ last.op = "join"
    /\ last.slot = "q"
    /\ depth = 1
    /\ last.this.base = <<"/", "c">>
    /\ q.base = <<"/", "c">>

\* C4: join() binds its result to the receiver's algebra; dirname() binds
\* it to the receiver's algebra unless the caller gives a pathApi, and then
\* to the one given.
C4_PathApiPropagation ==
    /\ last.op = "join" => last.ret.pathApi = last.this.pathApi
    /\ last.op = "dirname" =>
          last.ret.pathApi = IF last.opts.pathApi = undefined
                             THEN last.this.pathApi
                             ELSE last.opts.pathApi

C4_Witness ==
    /\ last.op = "dirname"
    /\ last.opts.pathApi = undefined
    /\ last.this.pathApi = backslashApi
    /\ q.pathApi = backslashApi
    /\ depth = 1

\* C5: every parse() of an instance returns the result its first parse()
\* returned, and pathApi.parse is called at most once per instance: by the
\* first parse(), with the instance's value as its only argument.
C5_ParseOnce ==
    /\ \A slot \in {"p", "q"} : hist[slot].apiParse <= 1
    /\ last.op = "parse" =>
          /\ hist[last.slot].first = <<last.ret>>
          /\ IF last.this.parts = <<>>
             THEN /\ Len(last.calls) = 1
                  /\ last.calls[1].fn = "parse"
                  /\ last.calls[1].api = last.this.pathApi
                  /\ last.calls[1].args = <<last.this.value>>
             ELSE last.calls = <<>>

C5_Witness ==
    /\ last.op = "parse"
    /\ last.this.parts # <<>>
    /\ last.calls = <<>>
    /\ hist[last.slot].apiParse = 1
    /\ hist[last.slot].first = <<last.ret>>

\* C6: the parse cache of every instance is unset, or holds what the
\* instance's algebra parses from the instance's value, whatever the
\* operations made so far.
C6_CacheConsistent ==
    \A x \in {p, q} :
        \/ x = null
        \/ x.parts = <<>>
        \/ x.parts = <<pathApi_parse(x.pathApi, x.value)>>

\* C7: the value of a join() result is never the zero-length string, and
\* it is "." when the receiver's value and the segments collapse to
\* nothing.
C7_JoinNeverEmpty ==
    last.op = "join" =>
        /\ last.ret.value # <<>>
        /\ CollapseToNothing(last.this.pathApi, <<last.this.value>> \o last.paths)
              => last.ret.value = <<".">>

\* C7, amended: the value of a join() result is never the zero-length
\* string; when the receiver's value and the segments collapse to nothing
\* it is ".", followed by one separator when the last of these strings that
\* is not zero-length ends with a separator.
C7_JoinCollapse ==
    last.op = "join" =>
        LET api  == last.this.pathApi
            args == <<last.this.value>> \o last.paths
        IN
        /\ last.ret.value # <<>>
        /\ CollapseToNothing(api, args)
              => last.ret.value = IF EndWithSeparator(api, args)
                                  THEN <<".", sep(api)>> ELSE <<".">>

C7_Witness ==
    /\ last.op = "join"
    /\ last.this.value = <<".", "/">>
    /\ last.this.pathApi = posix
    /\ last.paths = <<<<>>, <<>>>>
    /\ q.value = <<".", "/">>

\* C8: join(...paths) returns the Filepath that the constructor builds from
\* pathApi.join(value, ...paths) with the receiver's base and algebra;
\* under POSIX, "/tmp/a/b/c" joined with "..", "..", "d/e" is the Filepath
\* built from "/tmp/a/d/e".
C8_JoinResult ==
    last.op = "join" =>
        LET A == last.this.pathApi
            j == pathApi_join(A, <<last.this.value>> \o last.paths)
        IN /\ last.ret = [value |-> pathApi_normalize(A, j),
                          base |-> last.this.base, pathApi |-> A, parts |-> <<>>]
           /\ (last.this.value = exTmpABC /\ A = posix
               /\ last.paths = <<exDotDot, exDotDot, exDE>>)
                 => last.ret = Filepath_constructor(exTmpADE,
                                   [onError |-> undefined, pathApi |-> posix,
                                    base |-> last.this.base]).ret

C8_Witness ==
    /\ last.op = "join"
    /\ last.this.value = exTmpABC
    /\ last.this.pathApi = posix
    /\ last.paths = <<exDotDot, exDotDot, exDE>>
    /\ q.value = exTmpADE

\* C9: dirname() without options returns a new Filepath, the one that the
\* constructor builds from pathApi.dirname(value) with the receiver's base
\* and algebra; under POSIX the dirname of "/tmp" is the Filepath built
\* from "/".
C9_DirnameResult ==
    (last.op = "dirname" /\ last.opts = noOptions) =>
        LET A == last.this.pathApi
            d == pathApi_dirname(A, last.this.value)
        IN /\ last.ret = [value |-> pathApi_normalize(A, d),
                          base |-> last.this.base, pathApi |-> A, parts |-> <<>>]
           /\ (last.this.value = exTmp /\ A = posix)
                 => last.ret.value = <<"/">>

C9_Witness ==
    /\ last.op = "dirname"
    /\ last.opts = noOptions
    /\ last.this.value = exTmp
    /\ last.this.pathApi = posix
    /\ q.value = <<"/">>

\* C10: basename(ext) is basename() with ext removed from its end when
\* basename() ends with ext, and basename() itself when it does not.
C10_BasenameSuffix ==
    (last.op = "basename" /\ last.ext # undefined) =>
        LET b == pathApi_basename(last.this.pathApi, last.this.value, undefined)
        IN IF EndsWith(b, last.ext)
           THEN last.ret = SubSeq(b, 1, Len(b) - Len(last.ext))
           ELSE last.ret = b

\* C11: extname() returns the part of the final segment from its last "."
\* to its end, and the zero-length string when the final segment has no "."
\* or its only "." is its first character.
C11_Extname ==
    last.op = "extname" =>
        LET seg == pathApi_basename(last.this.pathApi, last.this.value, undefined)
            dot == lastIndexOf(seg, ".")
        IN last.ret = IF dot <= 0 THEN <<>> ELSE slice(seg, dot, Len(seg))

\* C12: the validator returns every string as it is, so every construction
\* (by the constructor, by makeFilepath from the same input and options, and
\* by dirname() / join() for the value they derive) completes with a
\* Filepath and hands no error to the onError handler, the default one or
\* the caller's.
C12_ValidationNeverRejects ==
    /\ last.errors = <<>>
    /\ last.op \in {"new", "dirname", "join"} =>
          /\ last.ret # null
          /\ validateFilepathData(last.ret.value) = last.ret.value
    /\ last.op = "new" =>
          /\ validateFilepathData(last.input) = last.input
          /\ makeFilepath(last.input, last.opts).errors = <<>>
          /\ makeFilepath(last.input, last.opts).ret.value = last.input

C12_Witness ==
    /\ last.op = "new"
    /\ last.opts.onError = callerOnError
    /\ last.input = <<".", ".">>
    /\ last.errors = <<>>
    /\ p.value = <<".", ".">>

\* C13: no call of basename, dirname, extname, isAbsolute, join, parse or
\* of the base / pathApi getters changes the value, the base or the pathApi
\* of the instance it is called on, or of the other instance held.
C13_Immutable ==
    [][LET before == IF last'.slot = "p" THEN p ELSE q
           after  == IF last'.op \in {"dirname", "join"} \/ last'.slot = "p"
                     THEN p' ELSE q'
       IN /\ after.value = before.value
          /\ after.base = before.base
          /\ after.pathApi = before.pathApi
          /\ last'.op \notin {"dirname", "join"} =>
                /\ <<p'.value, p'.base, p'.pathApi>> = <<p.value, p.base, p.pathApi>>
                /\ <<q'.value, q'.base, q'.pathApi>> = <<q.value, q.base, q.pathApi>>
      ]_vars

C13_Witness ==
    /\ last.op = "parse"
    /\ last.slot = "p"
    /\ depth = 1
    /\ p.parts # <<>>
    /\ p.value = last.this.value
    /\ p.value # last.ret.base
    /\ p.base = <<"/", "c">>
    /\ p.pathApi = backslashApi

\* C14: the Filepath that dirname() or join() returns starts with its parse
\* cache unset and leaves the cache of its source as it was; a parse() of
\* the derived value leaves the source as it was, and a parse() of the
\* source leaves the derived value as it was.
C14_Independent ==
    [][/\ last'.op \in {"dirname", "join"} =>
             /\ q'.parts = <<>>
             /\ p'.parts = (IF last'.slot = "p" THEN p ELSE q).parts
       /\ last'.op = "parse" =>
             IF last'.slot = "p" THEN q' = q ELSE p' = p
      ]_vars

C14_Witness ==
    /\ last.op = "parse"
    /\ last.slot = "q"
    /\ last.this.parts = <<>>
    /\ q.parts # <<>>
    /\ p.parts = <<>>
    /\ p.value # q.value

\* C15: makeFilepath(input, options) without functional options returns a
\* Filepath with the value, base and pathApi of new Filepath(input,
\* options): the base getter gives the base supplied, undefined when there
\* is none, and the pathApi getter gives the algebra supplied, the default
\* one when there is none.
C15_MakeFilepathPassThrough ==
    last.op = "makeFilepath" =>
        LET n == FilepathV1_constructor(last.input, last.opts).ret IN
        /\ last.ret = u
        /\ u.value = n.value
        /\ FilepathV1_base(u) = FilepathV1_base(n)
        /\ FilepathV1_pathApi(u) = FilepathV1_pathApi(n)
        /\ FilepathV1_base(u) = last.opts.base
        /\ FilepathV1_pathApi(u) = BoundApi(last.opts)

C15_Witness ==
    /\ last.op = "makeFilepath"
    /\ last.opts.base = <<"/", "b">>
    /\ last.opts.pathApi = backslashApi
    /\ FilepathV1_base(u) = <<"/", "b">>
    /\ FilepathV1_pathApi(u) = backslashApi

\* C16: when a function of the algebra throws during construction or during
\* basename, dirname, extname, isAbsolute, join or parse, that failure is
\* what reaches the caller: the operation ends at the throwing call (no
\* later call, no second call of the function), returns nothing, onError
\* is not invoked, and the instance and the derived slot stay as they were
C16_FailuresPropagate ==
    /\ \A i \in 1..Len(last.calls) :
          Throws(last.calls[i].api, last.calls[i].fn)
            => /\ i = Len(last.calls)
               /\ last.thrown = <<[api |-> last.calls[i].api, fn |-> last.calls[i].fn]>>
    /\ last.thrown # <<>>
         => /\ last.calls # <<>>
            /\ Throws(last.calls[Len(last.calls)].api, last.calls[Len(last.calls)].fn)
            /\ last.ret = undefined
            /\ last.errors = <<>>
            /\ last.op = "new" => p = null
            /\ last.op # "new" => p = last.this
    /\ (last.op = "new" /\ last.thrown = <<>>) => p # null

C16_Witness ==
    /\ last.op = "dirname"
    /\ last.this.pathApi = posix
    /\ last.opts.pathApi = throwingApi
    /\ last.opts.onError = callerOnError
    /\ Len(last.calls) = 2
    /\ last.thrown = <<[api |-> throwingApi, fn |-> "normalize"]>>

\* C19: p.dirname(), with no algebra given, on a Filepath bound to A makes
\* exactly two algebra calls: A.dirname(p.value), then A.normalize of what
\* that returned, made by the constructor of the Filepath returned.
C19_DirnameCallOrder ==
    (last.op = "dirname" /\ last.opts.pathApi = undefined) =>
        /\ Len(last.calls) = 2
        /\ last.calls[1].fn = "dirname"
        /\ last.calls[1].api = last.this.pathApi
        /\ last.calls[1].args = <<last.this.value>>
        /\ last.calls[2].fn = "normalize"
        /\ last.calls[2].api = last.this.pathApi
        /\ last.calls[2].args = <<last.calls[1].ret>>
        /\ last.ret.value = last.calls[2].ret

C19_Witness ==
    /\ last.op = "dirname"
    /\ last.opts = noOptions
    /\ last.this.pathApi = posix
    /\ last.this.value = exTmp
    /\ Len(last.calls) = 2
    /\ last.calls[1].fn = "dirname"
    /\ last.calls[1].args = <<exTmp>>
    /\ last.calls[2].fn = "normalize"
    /\ last.calls[2].args = <<<<"/">>>>

\* C20: p.join(...segs) on a Filepath bound to A makes exactly two algebra
\* calls: A.join with p's value first and the segments after it in the
\* order given, then A.normalize of what that returned; nothing else.
C20_JoinCallOrder ==
    last.op = "join" =>
        last.calls =
            <<Call("join", last.this.pathApi, <<last.this.value>> \o last.paths,
                   pathApi_join(last.this.pathApi, <<last.this.value>> \o last.paths)),
              Call("normalize", last.this.pathApi,
                   <<pathApi_join(last.this.pathApi, <<last.this.value>> \o last.paths)>>,
                   last.ret.value)>>

C20_Witness ==
    /\ last.op = "join"
    /\ last.this.value = exTmpABC
    /\ last.paths = <<exDotDot, exDotDot, exDE>>
    /\ Len(last.calls) = 2
    /\ last.calls[1].args = <<exTmpABC, exDotDot, exDotDot, exDE>>
    /\ last.calls[2].fn = "normalize"
    /\ last.calls[2].ret = last.ret.value

\* C17: a.relative(b) makes exactly one algebra call, relative(a.value,
\* b.value) on a's own algebra (never b's; no normalize, no resolve), and
\* returns what that call returned; under POSIX, from "/this/is/an/example"
\* to "/this/is/another/example" it returns "../../another/example".
C17_RelativeDelegation ==
    last.op = "relative" =>
        /\ last.calls = <<Call("relative", last.this.pathApi,
                               <<last.this.value, last.to.value>>, last.ret)>>
        /\ last.ret = pathApi_relative(last.this.pathApi, last.this.value,
                                       last.to.value)
        /\ (last.this.pathApi = posix /\ last.this.value = exAnExample
            /\ last.to.value = exAnotherExample) => last.ret = exRelative

C17_Witness ==
    /\ last.op = "relative"
    /\ last.this.pathApi = posix
    /\ last.to.pathApi = backslashApi
    /\ last.this.value = exAnExample
    /\ last.to.value = exAnotherExample
    /\ Len(last.calls) = 1
    /\ last.calls[1].api = posix
    /\ last.ret = exRelative

\* C18, as stated: for an absolute a and any b on the same algebra,
\* a.relative(b) is the zero-length string exactly when a.resolve() and
\* b.resolve() hold the same value.
C18_RelativeResolveInverse ==
    (/\ last.op = "relative"
     /\ pathApi_isAbsolute(last.this.pathApi, last.this.value)
     /\ last.this.pathApi = last.to.pathApi)
      => ((last.ret = <<>>)
            <=> (Filepath_resolve(last.this, <<>>).ret.value
                   = Filepath_resolve(last.to, <<>>).ret.value))

\* C18, amended: for an absolute a and a b on the same algebra that is
\* absolute or has no base, a.relative(b) is the zero-length string exactly
\* when a.resolve() and b.resolve() hold the same value.
C18_RelativeResolveInverseNoBase ==
    (/\ last.op = "relative"
     /\ pathApi_isAbsolute(last.this.pathApi, last.this.value)
     /\ last.this.pathApi = last.to.pathApi
     /\ \/ last.to.base = undefined
        \/ pathApi_isAbsolute(last.to.pathApi, last.to.value))
      => ((last.ret = <<>>)
            <=> (Filepath_resolve(last.this, <<>>).ret.value
                   = Filepath_resolve(last.to, <<>>).ret.value))

C18_Witness ==
    /\ last.op = "relative"
    /\ last.this.pathApi = posix
    /\ last.to.pathApi = posix
    /\ last.this.value = <<"/", "w", "/", "x">>
    /\ last.this.base # undefined
    /\ last.to.value = <<"x">>
    /\ last.to.base = undefined
    /\ last.ret = <<>>
    /\ Filepath_resolve(last.to, <<>>).ret.value = <<"/", "w", "/", "x">>

\* C21: every call of basename(ext?), extname() or isAbsolute() makes
\* exactly one algebra call: the function of the same name on the bound
\* algebra, with the stored value first (and ext after it for basename,
\* undefined when omitted); it returns what that call returned; normalize
\* is never called; after n such calls the algebra has been called n times.
C21_ScalarDelegation ==
    /\ last.op \in {"basename", "extname", "isAbsolute"} =>
          /\ Len(last.calls) = 1
          /\ last.calls[1].fn = last.op
          /\ last.calls[1].api = last.this.pathApi
          /\ last.calls[1].args = IF last.op = "basename"
                                  THEN <<last.this.value, last.ext>>
                                  ELSE <<last.this.value>>
          /\ last.calls[1].ret = last.ret
          /\ last.log[Len(last.log)] = last.calls[1]
    /\ Len(last.log) = last.n
    /\ \A i \in 1..Len(last.log) :
          last.log[i].fn \in {"basename", "extname", "isAbsolute"}

C21_Witness ==
    /\ last.op = "basename"
    /\ last.this.value = exExampleTs
    /\ last.ext = undefined
    /\ last.n = 3
    /\ Len(last.log) = 3
    /\ last.log[1] = last.log[3]
    /\ last.log[2].args = <<exExampleTs, exDotPhp>>
    /\ last.ret = exExampleTs

\* C22: constructing a Filepath makes exactly one algebra call,
\* normalize(input) with the input as given, on the algebra the instance is
\* bound to; the parse cache is left unset and no error handler is called.
C22_ConstructionEffects ==
    last.op = "new" =>
        /\ last.calls = <<Call("normalize", BoundApi(last.opts), <<last.input>>,
                               p.value)>>
        /\ p.pathApi = BoundApi(last.opts)
        /\ p.parts = <<>>
        /\ last.errors = <<>>

C22_Witness ==
    /\ last.op = "new"
    /\ last.input = exNotNormalised
    /\ last.opts.pathApi = backslashApi
    /\ last.opts.onError = callerOnError
    /\ Len(last.calls) = 1
    /\ last.calls[1].args = <<exNotNormalised>>
    /\ p.parts = <<>>

\* C23: every Filepath reached by construction followed by any chain of
\* dirname (with or without a pathApi given) and join holds a value that
\* the algebra it is bound to normalises to itself.
C23_NormalForm ==
    \A x \in {p, q} :
        x # null => pathApi_normalize(x.pathApi, x.value) = x.value

C23_Witness ==
    /\ last.op = "dirname"
    /\ last.this.pathApi = backslashApi
    /\ last.opts.pathApi = posix
    /\ q.pathApi = posix
    /\ last.calls[1].ret # q.value
    /\ pathApi_normalize(posix, q.value) = q.value
    /\ pathApi_normalize(backslashApi, last.calls[1].ret) = last.calls[1].ret

\* C24: p.dirname({pathApi: A2}) on a Filepath bound to A1 asks A1, never
\* A2, for the parent; A2 only normalises that string and is the algebra
\* of the result, whose value is A2.normalize(A1.dirname(p.value)).
C24_DirnameOverride ==
    (last.op = "dirname" /\ last.opts.pathApi # undefined) =>
        /\ \A i \in 1..Len(last.calls) :
              /\ last.calls[i].fn = "dirname" => last.calls[i].api = last.this.pathApi
              /\ last.calls[i].api = last.opts.pathApi
                    => \/ last.calls[i].fn = "normalize"
                       \/ last.opts.pathApi = last.this.pathApi
        /\ last.calls[1].fn = "dirname"
        /\ last.ret.pathApi = last.opts.pathApi
        /\ last.ret.value =
              pathApi_normalize(last.opts.pathApi,
                                pathApi_dirname(last.this.pathApi, last.this.value))

C24_Witness ==
    /\ last.op = "dirname"
    /\ last.this.pathApi = posix
    /\ last.opts.pathApi = backslashApi
    /\ last.this.value = <<"a", "\\", "a">>
    /\ pathApi_dirname(backslashApi, last.this.value) = <<"a">>
    /\ last.calls[1].api = posix
    /\ q.value = <<".">>
    /\ q.pathApi = backslashApi

\* C25: every parse() after the first returns the very object the first
\* one returned, the one the instance holds in #_parts: it reads as the
\* caller last left it, so a field the caller has written shows in the
\* result of every later parse() of that instance.
C25_ParseReturnsCell ==
    [][(last'.op = "parse" /\ last.op \in {"parse", "write"})
         => /\ last'.handle = last.handle
            /\ last'.handle = <<"p">>
            /\ last'.ret = last.ret
            /\ last'.calls = <<>>]_vars

C25_Witness ==
    /\ last.op = "parse"
    /\ last.calls = <<>>
    /\ hist.p.apiParse = 1
    /\ last.ret.ext = <<"!">>
    /\ last.ret.base = exExampleTs
    /\ hist.p.first[1].ext = exDotTs
    /\ p.parts = <<last.ret>>

\* C26: a parse() in which the algebra's parse throws leaves #_parts unset
\* and value, base and pathApi as they were; the parse() after it calls the
\* algebra's parse again and, when that answers, stashes and returns what
\* it answered.
C26_FailedParse ==
    [][last'.op = "parse" =>
         /\ last'.thrown # <<>> => (p' = p /\ p'.parts = <<>>)
         /\ (last.op = "parse" /\ last.thrown # <<>>) =>
               /\ Len(last'.calls) = 1
               /\ last'.calls[1].fn = "parse"
               /\ last'.calls[1].args = <<p.value>>
               /\ last'.thrown = <<>> =>
                     /\ last'.ret = pathApi_parse(p.pathApi, p.value)
                     /\ p' = [p EXCEPT !.parts = <<last'.ret>>]]_vars

C26_Witness ==
    /\ last.op = "parse"
    /\ last.thrown = <<>>
    /\ p.pathApi = flakyApi
    /\ hist.p.apiParse = 2
    /\ Len(last.calls) = 1
    /\ last.this.parts = <<>>
    /\ p.parts = <<last.ret>>
    /\ p.value = <<"a", "\\", "a">>
    /\ last.ret.dir = <<"a">>

\* C27: basename, dirname, extname, isAbsolute, join and the getters never
\* call the algebra's parse and leave the receiver's #_parts as it was;
\* #_parts changes only in a parse() that finds it unset, to what that
\* parse() returns, and a set #_parts never changes again.
C27_OnlyParseTouchesCache ==
    [][LET after == IF last'.op \in {"dirname", "join"} \/ last'.slot = "p"
                    THEN p' ELSE q'
       IN /\ last'.op # "parse" =>
                /\ \A i \in 1..Len(last'.calls) : last'.calls[i].fn # "parse"
                /\ after.parts = last'.this.parts
                /\ last'.op \notin {"dirname", "join"} =>
                      (p'.parts = p.parts /\ q'.parts = q.parts)
          /\ last'.op = "parse" =>
                after.parts = IF last'.this.parts = <<>> THEN <<last'.ret>>
                              ELSE last'.this.parts
          /\ last'.this.parts # <<>> => after.parts = last'.this.parts
      ]_vars

C27_Witness ==
    /\ last.op = "extname"
    /\ hist.p.apiParse = 1
    /\ last.this.parts # <<>>
    /\ p.parts = last.this.parts
    /\ p.parts[1].ext = last.ret
    /\ last.ret = exDotTs
    /\ Len(last.calls) = 1

\* C28: under POSIX, the walk p.dirname(), p.dirname().dirname(), ... is at
\* rest after finitely many steps (more steps than p's value has characters
\* are never needed): at a Filepath whose dirname() has its own value, "/"
\* when p is absolute and "." when it is not; every Filepath of the walk
\* has p's base and p's algebra.
C28_DirnameFixedPoint ==
    /\ q # null => (q.base = p.base /\ q.pathApi = p.pathApi /\ q.pathApi = posix)
    /\ depth > Len(p.value) =>
          /\ q.value = IF pathApi_isAbsolute(posix, p.value) THEN <<"/">> ELSE <<".">>
          /\ Filepath_dirname(q, noOptions).ret.value = q.value

C28_Witness ==
    /\ p.value = exTmpABC
    /\ p.base = <<"/", "b">>
    /\ depth = MaxWalk
    /\ q.value = <<"/">>
    /\ q.base = <<"/", "b">>
    /\ last.op = "dirname"
    /\ last.this.value = <<"/">>
    /\ last.ret.value = <<"/">>

\* C29: built from the same string, base and algebra A, the src/v1 class
\* and the normalising class hold the same value, base and pathApi, and
\* basename(ext) returns the same on both for every ext, when A.normalize
\* leaves the string as it is; when it does not, the values held differ.
C29_VariantsAgree ==
    IF pathApi_normalize(BoundApi(last.opts), last.input) = last.input
    THEN /\ p.value = u.value
         /\ p.base = u.base
         /\ p.pathApi = u.pathApi
         /\ last.op = "basename" => last.ret = last.retV1
    ELSE p.value # u.value

C29_Witness ==
    /\ last.op = "basename"
    /\ last.input = exExampleTs
    /\ last.opts.pathApi = backslashApi
    /\ last.opts.base = <<"/", "b">>
    /\ last.ext = exDotTs
    /\ p.value = exExampleTs
    /\ u.value = exExampleTs
    /\ last.ret = exExample
    /\ last.retV1 = exExample

====
